---- MODULE Spec2Model ----
(***************************************************************************)
(* A model of js/main.js (Solace): the page script that reveals the hero   *)
(* content on page load, reveals '.scroll-fade' elements when the          *)
(* IntersectionObserver reports them, and scrolls smoothly on clicks on    *)
(* in-page links.                                                          *)
(*                                                                         *)
(* The host (document, timers, IntersectionObserver, event dispatch) is    *)
(* modelled by what the script asks of it: every callback runs to          *)
(* completion (one action per callback), a timer runs when the time it was *)
(* set for has passed (time is counted in milliseconds), and the observer  *)
(* delivers batches of entries for elements that are observation targets   *)
(* when the batch is delivered.                                            *)
(***************************************************************************)
EXTENDS Integers, Sequences, FiniteSets, TLC

\* ------------------------------------------------------------ bounds
NumElems == 2      \* at most this many animated elements on the page
MaxBatch == 2      \* at most this many entries in one observer callback
MaxTime == 900     \* the stopwatches stop counting here (ms)
NumLinks == 1      \* at most this many in-page links on the page

\* --------------------------------------------------- program constants
HeroInterval == 200     \* index * 200
ScrollInterval == 300   \* parseInt(delay) * 300

\* getAttribute's result for an absent attribute: a value that is no string
\* of characters
Null == <<"null">>

\* A JavaScript number that matters here: an integer or NaN
Num(v) == [nan |-> FALSE, val |-> v]
NaN == [nan |-> TRUE, val |-> 0]

\* ----------------------------------------------------------- the page
\* An attribute value or a fragment is a sequence of one-character strings.
Digits == {"0", "1", "2"}

DigitVal(c) == CASE c = "0" -> 0 [] c = "1" -> 1 [] c = "2" -> 2

\* The data-delay values of the pages considered: absent, the numbers 0
\* and 1, and text without a digit
DelayAttrs == { Null, <<"0">>, <<"1">>, <<"p">> }

\* An animated element of the page: whether it matches '.hero .fade-in',
\* whether it matches '.scroll-fade', and its data-delay attribute.  The
\* attribute is read for '.scroll-fade' elements only; an element that
\* matches both selectors is considered without the attribute and with 1.
ElemKinds ==
    { k \in [hero : BOOLEAN, scroll : BOOLEAN, delay : DelayAttrs] :
        /\ k.hero \/ k.scroll
        /\ ~k.scroll => k.delay = Null
        /\ k.hero => k.delay \in {Null, <<"1">>} }

\* Pages are sequences of elements in document order.
Pages == UNION { [1..n -> ElemKinds] : n \in 0..NumElems }

\* The fragments of the in-page links considered ("#", "#a", "#1") and the
\* ids an element of the document can carry.
Fragments == { <<>>, <<"a">>, <<"1">> }
Ids == Fragments \ { <<>> }

VARIABLES
    page,       \* the animated elements, in document order
    markup,     \* the elements whose markup already carries 'visible'
    href,       \* href[l]: the fragment of in-page link l (after the '#')
    ids,        \* the ids carried by elements of the document
    hasIO,      \* the host provides IntersectionObserver
    domReady,   \* DOMContentLoaded has been dispatched
    visible,    \* the elements whose classList has 'visible'
    observed,   \* scrollObserver's observation targets
    timers,     \* the pending timers, in creation order, with the time left
    listening,  \* the links that carry the script's click listener
    clickCalls, \* the host calls of the click dispatch that has just run
    seen,       \* seen[e]: the intersecting entries handled for e
    created,    \* created[e]: the reveal timers handleIntersection created
    reveals,    \* reveals[e]: how often e went from unrevealed to revealed
    sinceReady, \* the time since the hero listener ran, counted while one of
                \* its timers is pending (-1: it has not run)
    heroAt,     \* heroAt[e]: sinceReady when the hero timer of e ran (-1: not)
    sinceSeen   \* sinceSeen[e]: the time from the first intersecting entry
                \* handled for e to e's reveal (-1: none before the reveal)

dom == <<page, markup, href, ids, hasIO>>
vars == <<page, markup, href, ids, hasIO, domReady, visible, observed,
          timers, listening, clickCalls, seen, created, reveals, sinceReady,
          heroAt, sinceSeen>>

Elems == DOMAIN page
Links == DOMAIN href

\* document.querySelectorAll: the elements of a class, in document order
RECURSIVE SelectFrom(_, _)
SelectFrom(i, cls) ==
    IF i > Len(page) THEN <<>>
    ELSE (IF page[i][cls] THEN <<i>> ELSE <<>>) \o SelectFrom(i + 1, cls)

\* A selector that matches every animated element
everyElement == [i \in 1..Len(page) |-> i]

\* document.querySelectorAll('.hero .fade-in')
heroElements == SelectFrom(1, "hero")

\* document.querySelectorAll('.scroll-fade')
scrollElements == SelectFrom(1, "scroll")

Min(S) == CHOOSE x \in S : \A y \in S : x <= y

\* ------------------------------------------------------ host functions
\* The machine state a callback works on, and the host calls it has made
State ==
    [ visible |-> visible, observed |-> observed, timers |-> timers,
      listening |-> listening, calls |-> <<>>, seen |-> seen,
      created |-> created, reveals |-> reveals, sinceReady |-> sinceReady,
      heroAt |-> heroAt, sinceSeen |-> sinceSeen ]

Call(op, el) == [op |-> op, el |-> el]

Log(st, op, el) == [st EXCEPT !.calls = Append(@, Call(op, el))]

\* element.classList.toggle('visible'): the token is removed if it is there
classListToggle(st, e) ==
    IF e \in st.visible
    THEN [Log(st, "add", e) EXCEPT !.visible = @ \ {e}]
    ELSE [Log(st, "add", e) EXCEPT !.visible = @ \cup {e},
                                   !.reveals[e] = @ + 1]

\* element.classList.add('visible'): the token is added if it is not there
classListAdd(st, e) ==
    IF e \in st.visible
    THEN Log(st, "add", e)
    ELSE [Log(st, "add", e) EXCEPT !.visible = @ \cup {e},
                                   !.reveals[e] = @ + 1]

\* setTimeout's timeout argument as the host takes it: NaN and negative
\* values are a timeout of 0
ClampTimeout(t) == IF t.nan THEN 0 ELSE IF t.val < 0 THEN 0 ELSE t.val

\* A timer that is cleared as soon as it is set
setTimeoutCleared(st, e, src, timeout) == Log(st, "setTimeout", e)

\* Timers that run one after another: each timeout counted from the time
\* the timer set before it is due
setTimeoutQueued(st, e, src, timeout) ==
    [Log(st, "setTimeout", e) EXCEPT
        !.timers = Append(@, [el |-> e,
                              left |-> ClampTimeout(timeout)
                                         + (IF st.timers = <<>> THEN 0
                                            ELSE st.timers[Len(st.timers)].left),
                              src |-> src])]

\* setTimeout(function() { element.classList.add('visible') }, timeout)
setTimeout(st, e, src, timeout) ==
    [Log(st, "setTimeout", e) EXCEPT
        !.timers = Append(@, [el |-> e, left |-> ClampTimeout(timeout),
                              src |-> src])]

\* Only an unrevealed element observed
observeUnrevealed(st, e) ==
    IF e \in st.visible THEN st
    ELSE [Log(st, "observe", e) EXCEPT !.observed = @ \cup {e}]

\* observer.observe(element): the targets are a set
observe(st, e) == [Log(st, "observe", e) EXCEPT !.observed = @ \cup {e}]

\* observer.disconnect(): every target is dropped
disconnect(st, e) == [Log(st, "unobserve", e) EXCEPT !.observed = {}]

\* observer.unobserve(element)
unobserve(st, e) == [Log(st, "unobserve", e) EXCEPT !.observed = @ \ {e}]

\* parseInt(string): an optional sign, then the longest run of decimal
\* digits; NaN when there is none
RECURSIVE DigitRun(_)
DigitRun(s) ==
    IF s = <<>> \/ Head(s) \notin Digits THEN <<>>
    ELSE <<Head(s)>> \o DigitRun(Tail(s))

RECURSIVE Decimal(_)
Decimal(s) ==
    IF s = <<>> THEN 0 ELSE 10 * Decimal(SubSeq(s, 1, Len(s) - 1))
                            + DigitVal(s[Len(s)])

parseInt(s) ==
    LET signed == s # <<>> /\ Head(s) \in {"-", "+"}
        run == DigitRun(IF signed THEN Tail(s) ELSE s)
    IN  IF run = <<>> THEN NaN
        ELSE IF s # <<>> /\ Head(s) = "-" THEN Num(0 - Decimal(run))
        ELSE Num(Decimal(run))

\* The product forgotten: the first factor alone
TimesDropped(x, y) == x

\* x * y in JavaScript numbers: NaN times anything is NaN
Times(x, y) == IF x.nan \/ y.nan THEN NaN ELSE Num(x.val * y.val)

\* ---------------------------------------------------------- callbacks
\* Part 1, the first DOMContentLoaded listener:
\* heroElements.forEach(function(element, index) { setTimeout(.., index * 200) })
RECURSIVE forEachHero(_, _, _)
forEachHero(elements, index, st) ==
    IF elements = <<>> THEN st
    ELSE forEachHero(Tail(elements), index + 1,
             setTimeout(st, Head(elements), "hero",
                        Times(Num(index), Num(HeroInterval))))

\* The stagger counted from one: 200, 400, ...
heroReadyFromOne(st) ==
    forEachHero(heroElements, 1, [st EXCEPT !.sinceReady = 0])

heroReady(st) == forEachHero(heroElements, 0, [st EXCEPT !.sinceReady = 0])

\* The absent attribute not told apart: a timer in every case
handleEntryAlwaysTimer(st, entry) ==
    IF entry.isIntersecting
    THEN LET element == entry.target
             delay == page[element].delay
             s0 == [st EXCEPT !.seen[element] = @ + 1,
                              !.sinceSeen[element] =
                                  IF @ = -1 /\ element \notin st.visible
                                  THEN 0 ELSE @]
             delayTime == Times(parseInt(delay), Num(ScrollInterval))
         IN  unobserve([setTimeout(s0, element, "scroll", delayTime)
                           EXCEPT !.created[element] = @ + 1], element)
    ELSE st

\* The element left observed
handleEntryKeepObserving(st, entry) ==
    IF entry.isIntersecting
    THEN LET element == entry.target
             delay == page[element].delay
             s0 == [st EXCEPT !.seen[element] = @ + 1,
                              !.sinceSeen[element] =
                                  IF @ = -1 /\ element \notin st.visible
                                  THEN 0 ELSE @]
         IN  IF delay # Null
             THEN LET delayTime == Times(parseInt(delay),
                                         Num(ScrollInterval))
                  IN  [setTimeout(s0, element, "scroll", delayTime)
                          EXCEPT !.created[element] = @ + 1]
             ELSE classListAdd(s0, element)
    ELSE st

\* isIntersecting not looked at: an element leaving the viewport is
\* unobserved too
handleEntryAnyEntry(st, entry) ==
    LET element == entry.target
        s0 == IF entry.isIntersecting
              THEN [st EXCEPT !.seen[element] = @ + 1,
                              !.sinceSeen[element] =
                                  IF @ = -1 /\ element \notin st.visible
                                  THEN 0 ELSE @]
              ELSE st
    IN  unobserve(s0, element)

\* The element unobserved first, the timer set after that
handleEntryUnobserveFirst(st, entry) ==
    IF entry.isIntersecting
    THEN LET element == entry.target
             delay == page[element].delay
             s0 == unobserve([st EXCEPT !.seen[element] = @ + 1,
                                        !.sinceSeen[element] =
                                            IF @ = -1 /\ element \notin st.visible
                                            THEN 0 ELSE @], element)
         IN  IF delay # Null
             THEN LET delayTime == Times(parseInt(delay),
                                         Num(ScrollInterval))
                  IN  [setTimeout(s0, element, "scroll", delayTime)
                          EXCEPT !.created[element] = @ + 1]
             ELSE classListAdd(s0, element)
    ELSE st

\* Part 2, one entry of handleIntersection's entries.forEach
handleEntry(st, entry) ==
    IF entry.isIntersecting
    THEN LET element == entry.target
             delay == page[element].delay
             s0 == [st EXCEPT !.seen[element] = @ + 1,
                              !.sinceSeen[element] =
                                  IF @ = -1 /\ element \notin st.visible
                                  THEN 0 ELSE @]
             s1 == IF delay # Null
                   THEN LET delayTime == Times(parseInt(delay),
                                               Num(ScrollInterval))
                        IN  [setTimeout(s0, element, "scroll", delayTime)
                                EXCEPT !.created[element] = @ + 1]
                   ELSE classListAdd(s0, element)
         IN  unobserve(s1, element)
    ELSE st

\* function handleIntersection(entries, observer)
RECURSIVE handleIntersection(_, _)
handleIntersection(entries, st) ==
    IF entries = <<>> THEN st
    ELSE handleIntersection(Tail(entries), handleEntry(st, Head(entries)))

\* The second DOMContentLoaded listener:
\* scrollElements.forEach(function(element) { scrollObserver.observe(element) })
RECURSIVE forEachScroll(_, _)
forEachScroll(elements, st) ==
    IF elements = <<>> THEN st
    ELSE forEachScroll(Tail(elements), observe(st, Head(elements)))

scrollReady(st) == forEachScroll(scrollElements, st)

\* Part 4, the third DOMContentLoaded listener:
\* navLinks.forEach(function(link) { link.addEventListener('click', ..) })
linksReady(st) == [st EXCEPT !.listening = Links]

\* A selector '#' followed by an identifier selects by id; an identifier is
\* not empty and does not start with a digit.  Anything else is no selector.
IsIdent(s) == s # <<>> /\ Head(s) \notin Digits

\* document.querySelector(targetId): throws on what is no selector, and
\* gives the element with that id or null
querySelector(sel) ==
    IF Head(sel) = "#" /\ IsIdent(Tail(sel))
    THEN [threw |-> FALSE, found |-> Tail(sel) \in ids]
    ELSE [threw |-> TRUE, found |-> FALSE]

\* The click listener of an in-page link
clickHandler(st, link) ==
    LET s0 == Log(st, "preventDefault", link)
        targetId == <<"#">> \o href[link]
        targetSection == querySelector(targetId)
    IN  IF targetSection.threw THEN Log(s0, "throw", link)
        ELSE IF targetSection.found THEN Log(s0, "scrollIntoView", link)
        ELSE s0

\* The host's dispatch of a click on a link: the listeners, then the default
\* action (the jump to the fragment) unless a listener prevented it
dispatchClick(st, link) ==
    LET s0 == IF link \in st.listening THEN clickHandler(st, link) ELSE st
    IN  IF \E i \in DOMAIN s0.calls : s0.calls[i].op = "preventDefault"
        THEN s0 ELSE Log(s0, "jump", link)

\* The script as evaluated: the first listener is installed before
\* 'new IntersectionObserver' runs, the other two after it
Installed == IF hasIO THEN {"hero", "scroll", "links"} ELSE {"hero"}

\* The dispatch of DOMContentLoaded to the listeners, in the order installed
dispatchReady(st) ==
    LET s1 == IF "hero" \in Installed THEN heroReady(st) ELSE st
        s2 == IF "scroll" \in Installed THEN scrollReady(s1) ELSE s1
    IN  IF "links" \in Installed THEN linksReady(s2) ELSE s2

\* The timer the host runs next: the first created among those due
DueTimers == { i \in DOMAIN timers : timers[i].left = 0 }

Without(s, i) == SubSeq(s, 1, i - 1) \o SubSeq(s, i + 1, Len(s))

\* The batches the observer can deliver: entries for observation targets
Entries == [target : observed, isIntersecting : BOOLEAN]
Batches == UNION { [1..n -> Entries] : n \in 1..MaxBatch }

\* The smallest step of the clock that the two intervals share
RECURSIVE GCD(_, _)
GCD(a, b) == IF b = 0 THEN a ELSE GCD(b, a % b)
TickStep == GCD(HeroInterval, ScrollInterval)

\* ------------------------------------------------------------ actions
Commit(st) ==
    /\ visible' = st.visible
    /\ observed' = st.observed
    /\ timers' = st.timers
    /\ listening' = st.listening
    /\ clickCalls' = <<>>
    /\ seen' = st.seen
    /\ created' = st.created
    /\ reveals' = st.reveals
    /\ sinceReady' = st.sinceReady
    /\ heroAt' = st.heroAt
    /\ sinceSeen' = st.sinceSeen

\* The listeners run as soon as the document is ready, also when it was
\* ready before the script was evaluated (document.readyState looked at)
PageReadyOrLoaded ==
    /\ sinceReady = -1
    /\ domReady' = TRUE
    /\ Commit(dispatchReady(State))
    /\ UNCHANGED dom

\* DOMContentLoaded fires, once
PageReady ==
    /\ ~domReady
    /\ domReady' = TRUE
    /\ Commit(dispatchReady(State))
    /\ UNCHANGED dom

\* The observer calls handleIntersection with a batch of entries
Deliver ==
    /\ \E entries \in Batches : Commit(handleIntersection(entries, State))
    /\ UNCHANGED <<dom, domReady>>

\* A due timer runs: function() { element.classList.add('visible') }
FireTimer ==
    /\ DueTimers # {}
    /\ LET i == Min(DueTimers)
           el == timers[i].el
       IN  Commit(classListAdd(
               [State EXCEPT !.timers = Without(@, i),
                             !.heroAt[el] = IF timers[i].src = "hero"
                                            THEN sinceReady ELSE @],
               el))
    /\ UNCHANGED <<dom, domReady>>

\* The user clicks an in-page link
Click ==
    /\ \E link \in Links : clickCalls' = dispatchClick(State, link).calls
    /\ UNCHANGED <<dom, domReady, visible, observed, timers, listening, seen,
                   created, reveals, sinceReady, heroAt, sinceSeen>>

\* A stopwatch after dt more milliseconds, if it is counting
Run(watch, counting, dt) ==
    IF watch >= 0 /\ counting
    THEN (IF watch + dt > MaxTime THEN MaxTime ELSE watch + dt)
    ELSE watch

\* Time passes, up to the time the next timer is set for; a due timer runs
\* before more time passes
Tick ==
    /\ DueTimers = {}
    /\ LET dt == Min({TickStep} \cup { timers[i].left : i \in DOMAIN timers })
       IN  /\ timers' = [i \in DOMAIN timers |->
                            [timers[i] EXCEPT !.left = @ - dt]]
           /\ sinceReady' =
                  Run(sinceReady,
                      \E i \in DOMAIN timers : timers[i].src = "hero", dt)
           /\ sinceSeen' =
                  [e \in Elems |-> Run(sinceSeen[e], e \notin visible, dt)]
    /\ clickCalls' = <<>>
    /\ UNCHANGED <<dom, domReady, visible, observed, listening, seen,
                   created, reveals, heroAt>>

Next == PageReady \/ Deliver \/ FireTimer \/ Click \/ Tick

\* ------------------------------------------------------ initial states
\* The state once the script has been evaluated.  DOMContentLoaded may have
\* been dispatched before that.
InitRun ==
    /\ hasIO \in BOOLEAN
    /\ domReady \in BOOLEAN
    /\ visible = markup
    /\ observed = {}
    /\ timers = <<>>
    /\ listening = {}
    /\ clickCalls = <<>>
    /\ seen = [e \in Elems |-> 0]
    /\ created = [e \in Elems |-> 0]
    /\ reveals = [e \in Elems |-> 0]
    /\ sinceReady = -1
    /\ heroAt = [e \in Elems |-> -1]
    /\ sinceSeen = [e \in Elems |-> -1]

LinkSets == UNION { [1..n -> Fragments] : n \in 0..NumLinks }

\* A page with a hero element and a watched element
PlainPage ==
    << [hero |-> TRUE, scroll |-> FALSE, delay |-> Null],
       [hero |-> FALSE, scroll |-> TRUE, delay |-> Null] >>

\* The pages considered: every page of animated elements without in-page
\* links, and the plain page with every set of links and ids
InitPage ==
    \/ page \in Pages /\ href = <<>> /\ ids = {}
    \/ page = PlainPage /\ href \in LinkSets /\ ids \in SUBSET Ids

\* No markup carries 'visible': every element starts unrevealed
Init == InitPage /\ markup = {} /\ InitRun

Spec == Init /\ [][Next]_vars

\* The host's timers are fair: time does not stop while a timer is pending,
\* and a timer that is due runs
SpecFair == Init /\ [][Next]_vars /\ WF_vars(Tick) /\ WF_vars(FireTimer)

\* The genre boxes: one '.scroll-fade' element for each of the data-delay
\* values 0, 1, 2, in any document order; the first element of the page may
\* be inside the hero section too
GenreBox(d, hero) == [hero |-> hero, scroll |-> TRUE, delay |-> <<d>>]

GenrePages ==
    { p \in [1..Cardinality(Digits) ->
                { GenreBox(d, h) : d \in Digits, h \in BOOLEAN }] :
        /\ \A i \in DOMAIN p : p[i].hero => i = 1 /\ p[i].delay = <<"1">>
        /\ \A i, j \in DOMAIN p : i < j => p[i].delay # p[j].delay }

\* The observer reports up to all the boxes in one callback
GenreBatches == UNION { [1..n -> Entries] : n \in 1..Len(page) }

DeliverGenre ==
    /\ \E entries \in GenreBatches :
           Commit(handleIntersection(entries, State))
    /\ UNCHANGED <<dom, domReady>>

NextGenre == PageReady \/ DeliverGenre \/ FireTimer \/ Click \/ Tick

InitGenre ==
    /\ page \in GenrePages
    /\ href = << <<"a">> >>
    /\ ids = { <<"a">> }
    /\ markup = {}
    /\ InitRun
    /\ hasIO
    /\ ~domReady

SpecGenre == InitGenre /\ [][NextGenre]_vars

\* Pages some of whose markup carries 'visible': the first element's
InitMarkup == InitPage /\ markup = { e \in Elems : e = 1 } /\ InitRun

SpecMarkup == InitMarkup /\ [][Next]_vars

\* ------------------------------------------------------------- claims
\* The watched elements ('.scroll-fade') and the elements of the load-time
\* stagger ('.hero .fade-in')
Watched == { e \in Elems : page[e].scroll }
Staggered == { e \in Elems : page[e].hero }

\* e carries a delay index: its data-delay is a non-negative integer
HasIndex(e) ==
    /\ page[e].delay # Null
    /\ page[e].delay # <<>>
    /\ \A i \in DOMAIN page[e].delay : page[e].delay[i] \in Digits
DelayIndex(e) == Decimal(page[e].delay)

\* The pending timers of element e set by src
PendingFor(e, src) ==
    { i \in DOMAIN timers : timers[i].el = e /\ timers[i].src = src }

\* The position of e in the sequence of the load-time stagger, from 0
HeroIndex(e) ==
    CHOOSE i \in 0..(Len(heroElements) - 1) : heroElements[i + 1] = e

\* C1 as stated: every watched element with delay index d is revealed no
\* earlier than d * 300 ms after its qualifying notification, exactly once.
C1_Original ==
    \A e \in Watched :
        HasIndex(e) /\ e \in visible =>
            /\ sinceSeen[e] >= DelayIndex(e) * 300
            /\ reveals[e] = 1

\* C1 amended: every watched element with delay index d that is not also an
\* element of the load-time stagger is revealed no earlier than d * 300 ms
\* after its qualifying notification, exactly once: never before a
\* qualifying notification, and once all its timers have run.
C1_RevealAfterDelay ==
    \A e \in Watched \ Staggered :
        HasIndex(e) =>
            /\ e \in visible =>
                  /\ seen[e] >= 1
                  /\ sinceSeen[e] >= DelayIndex(e) * 300
                  /\ reveals[e] = 1
            /\ e \notin visible => reveals[e] = 0
            /\ seen[e] >= 1 /\ PendingFor(e, "scroll") = {} => e \in visible

C1_Witness ==
    \E e \in Watched \ Staggered :
        /\ page[e].delay = <<"1">>
        /\ e \in visible
        /\ sinceSeen[e] = 300
        /\ reveals[e] = 1

\* C2 as stated: a watched element with no delay index is revealed inside
\* the callback that handles its qualifying notification, exactly once.
C2_Original ==
    \A e \in Watched :
        page[e].delay = Null /\ e \in visible =>
            /\ seen[e] >= 1
            /\ sinceSeen[e] = 0
            /\ reveals[e] = 1

\* C2 amended: a watched element with no delay index that is not also an
\* element of the load-time stagger is revealed inside the callback that
\* handles its qualifying notification: it is revealed if and only if such
\* an entry has been handled, no time passed and no timer was created in
\* between, and it went to revealed exactly once.
C2_NoDelaySynchronous ==
    \A e \in Watched \ Staggered :
        page[e].delay = Null =>
            /\ e \in visible <=> seen[e] >= 1
            /\ e \in visible =>
                  /\ reveals[e] = 1
                  /\ sinceSeen[e] = 0
            /\ e \notin visible => reveals[e] = 0
            /\ created[e] = 0
            /\ PendingFor(e, "scroll") = {}

C2_Witness ==
    \E e \in Watched \ Staggered :
        /\ page[e].delay = Null
        /\ seen[e] = 1
        /\ e \in visible
        /\ sinceSeen[e] = 0
        /\ reveals[e] = 1

\* C3: an element goes from unrevealed to revealed at most once, and a
\* revealed element stays revealed in every step.
C3_RevealedOnceForever ==
    [][\A e \in Elems :
          /\ e \in visible => e \in visible'
          /\ reveals'[e] <= 1]_vars

\* An element revealed once although two timers have run for it
C3_Witness ==
    \E e \in Watched :
        /\ created[e] = 2
        /\ PendingFor(e, "scroll") = {}
        /\ e \in visible
        /\ reveals[e] = 1

C5_Original ==
    \A e \in Watched : ~(e \in visible /\ e \in observed)

\* C5 amended: a watched element that is not also an element of the
\* load-time stagger is never both revealed and still observed, and once it
\* is revealed no step handles an entry for it, creates a timer for it or
\* reveals it again.
C5_RevealedUnobserved ==
    /\ [](\A e \in Watched \ Staggered : ~(e \in visible /\ e \in observed))
    /\ [][\A e \in Watched \ Staggered :
            e \in visible =>
                /\ seen'[e] = seen[e]
                /\ created'[e] = created[e]
                /\ reveals'[e] = reveals[e]]_vars

C5_Witness ==
    \E e \in Watched \ Staggered :
        e \in visible /\ e \notin observed /\ seen[e] >= 1 /\ observed # {}

\* C6 as stated: a watched element is revealed only after an intersecting
\* entry for it has been handled.
C6_Original ==
    \A e \in Watched : e \in visible => seen[e] >= 1

\* C6 amended: a watched element that is not also an element of the
\* load-time stagger, and for which no intersecting entry has been handled,
\* is not revealed and never was.
C6_NeverSeenNeverRevealed ==
    \A e \in Watched \ Staggered :
        seen[e] = 0 => e \notin visible /\ reveals[e] = 0

\* An unrevealed watched element after the load-time stagger has revealed
\* another element
C6_Witness ==
    \E e \in Watched \ Staggered :
        /\ seen[e] = 0
        /\ e \notin visible
        /\ e \in observed
        /\ \E h \in Staggered : heroAt[h] >= 0 /\ h \in visible

\* C7: an entry with isIntersecting = false changes nothing, wherever it
\* stands in a batch: the revealed elements, the observation targets, the
\* timers and the calls made are those of the batch without it.
C7_NotIntersectingNoOp ==
    \A entries \in Batches :
        ~entries[Len(entries)].isIntersecting =>
            handleIntersection(entries, State) =
                handleIntersection(SubSeq(entries, 1, Len(entries) - 1), State)

\* A state with revealed elements, observation targets and pending timers
C7_Witness ==
    /\ observed # {}
    /\ visible # {}
    /\ \E i \in DOMAIN timers : timers[i].src = "scroll"

\* C8 as stated: the element at position i of the load-time stagger is
\* revealed i * 200 ms after the hero listener ran, and not before.
C8_Original ==
    sinceReady >= 0 =>
        \A e \in Staggered :
            e \in visible => sinceReady >= HeroIndex(e) * 200

\* C8 amended: once the hero listener has run, the timer of the element at
\* position i runs exactly i * 200 ms later and leaves it revealed, with no
\* notification needed; until then no more than i * 200 ms have passed; an
\* element that is not also watched is revealed exactly then; the timers
\* run in sequence order.
C8_LoadTimeStagger ==
    sinceReady >= 0 =>
        \A e \in Staggered :
            /\ heroAt[e] \in {-1, HeroIndex(e) * 200}
            /\ heroAt[e] = -1 =>
                  /\ sinceReady <= HeroIndex(e) * 200
                  /\ Cardinality(PendingFor(e, "hero")) = 1
            /\ heroAt[e] >= 0 =>
                  /\ e \in visible
                  /\ reveals[e] = 1
                  /\ PendingFor(e, "hero") = {}
            /\ e \notin Watched => (e \in visible <=> heroAt[e] >= 0)
            /\ \A f \in Staggered :
                  HeroIndex(f) < HeroIndex(e) /\ heroAt[e] >= 0 =>
                      heroAt[f] >= 0

C8_Witness ==
    \E e \in Staggered :
        HeroIndex(e) = 1 /\ heroAt[e] = 200 /\ e \in visible

\* The link that was clicked, and what its dispatch called
Clicked(link) == clickCalls # <<>> /\ clickCalls[1].el = link
Called(op) == \E i \in DOMAIN clickCalls : clickCalls[i].op = op

\* C9 as stated: a click on a link that carries the listener prevents the
\* default jump, and scrolls if and only if an element with the id of the
\* link's fragment exists.
C9_Original ==
    \A link \in listening :
        Clicked(link) =>
            /\ Called("preventDefault")
            /\ ~Called("jump")
            /\ Called("scrollIntoView") <=> href[link] \in ids

\* C10 as stated: an element that is already revealed when the scroll
\* listener runs is not observed.
C10_Original ==
    \A e \in Watched : e \in markup /\ seen[e] = 0 => e \notin observed

\* C10 amended: the scroll listener observes every '.scroll-fade' element,
\* revealed or not, and each until an intersecting entry for it is handled;
\* observing an observed element leaves the observation targets unchanged.
C10_RegisterAll ==
    /\ domReady /\ "scroll" \in Installed /\ sinceReady >= 0 =>
          observed = { e \in Watched : seen[e] = 0 }
    /\ \A e \in observed : observe(State, e).observed = observed

C10_Witness ==
    \E e \in Watched : e \in markup /\ e \in visible /\ e \in observed

\* C11: with fair timers, every watched element for which an intersecting
\* entry has been handled is eventually revealed, and every element that has
\* a timer of the load-time stagger pending is eventually revealed by that
\* timer; no timer is ever removed other than by running.
C11_ScheduledRevealsHappen ==
    /\ \A e \in 1..NumElems :
          (e \in Watched /\ seen[e] >= 1) ~> (e \in visible)
    /\ \A e \in 1..NumElems :
          (e \in Staggered /\ PendingFor(e, "hero") # {})
              ~> (e \in visible /\ heroAt[e] >= 0)
    /\ [][\A i \in DOMAIN timers :
             (\E j \in DOMAIN timers' : timers'[j].el = timers[i].el)
                 \/ timers[i].el \in visible']_vars

\* Both kinds of timer have run: a watched element with a delay index is
\* revealed after its timer, next to an element the stagger revealed
C11_Witness ==
    \E e \in Watched \ Staggered :
        /\ HasIndex(e)
        /\ created[e] >= 1
        /\ PendingFor(e, "scroll") = {}
        /\ e \in visible
        /\ \E h \in Staggered \ Watched : heroAt[h] >= 0 /\ h \in visible

\* The watched elements with a delay index, and the elements for which a
\* batch has an intersecting entry
Boxes == { e \in Watched : HasIndex(e) }
Intersecting(entries) ==
    { entries[i].target :
        i \in { j \in DOMAIN entries : entries[j].isIntersecting } }

\* C12 as stated: every watched element with delay index d that a
\* notification at time t reports is revealed at t + d * 300 ms.
C12_Original ==
    \A e \in Boxes :
        seen[e] >= 1 /\ e \in visible => sinceSeen[e] = DelayIndex(e) * 300

\* C12 amended: whatever the order of the entries of a notification, each
\* element with a delay index d it reports that is not also an element of
\* the load-time stagger gets its timers set for d * 300 ms from the time of
\* the notification and is not revealed by the callback; such an element is
\* revealed exactly d * 300 ms after its notification; and of two of them
\* notified at the same time the one with the larger index is not revealed
\* while the other is unrevealed.
C12_SameNotification ==
    /\ [](\A entries \in GenreBatches :
            LET st == handleIntersection(entries, State)
            IN  \A e \in Intersecting(entries) \cap (Boxes \ Staggered) :
                    /\ st.sinceSeen[e] = 0
                    /\ e \notin st.visible
                    /\ \E i \in DOMAIN st.timers :
                          i > Len(timers) /\ st.timers[i].el = e
                    /\ \A i \in DOMAIN st.timers :
                          i > Len(timers) /\ st.timers[i].el = e =>
                              st.timers[i].left = DelayIndex(e) * 300)
    /\ [](\A e \in Boxes \ Staggered :
            /\ e \in visible =>
                  seen[e] >= 1 /\ sinceSeen[e] = DelayIndex(e) * 300
            /\ e \notin visible /\ seen[e] >= 1 =>
                  /\ sinceSeen[e] >= 0
                  /\ sinceSeen[e] <= DelayIndex(e) * 300
                  /\ PendingFor(e, "scroll") # {})
    /\ [][\A e, f \in Boxes \ Staggered :
             /\ e \notin visible /\ f \notin visible
             /\ sinceSeen[e] >= 0 /\ sinceSeen[e] = sinceSeen[f]
             /\ DelayIndex(e) < DelayIndex(f)
             => f \notin visible']_vars

\* The boxes with delay indices 0, 1 and 2, each reported once, revealed
\* 0, 300 and 600 ms after their notification
C12_Witness ==
    \E e, f, g \in Boxes \ Staggered :
        /\ DelayIndex(e) = 0 /\ DelayIndex(f) = 1 /\ DelayIndex(g) = 2
        /\ seen[e] = 1 /\ seen[f] = 1 /\ seen[g] = 1
        /\ {e, f, g} \subseteq visible
        /\ sinceSeen[e] = 0 /\ sinceSeen[f] = 300 /\ sinceSeen[g] = 600

\* C13 as stated: a click on a link whose fragment is the id of no element,
\* the bare '#' included, does nothing but prevent the default jump: the
\* listener does not end in an error.
C13_Original ==
    \A link \in listening :
        Clicked(link) /\ href[link] \notin ids =>
            /\ Called("preventDefault")
            /\ ~Called("scrollIntoView")
            /\ ~Called("throw")

\* C14 as stated: on a host without IntersectionObserver nothing is ever
\* observed or reported, and once page-ready has been dispatched to the
\* script the load-time stagger has been set up and every in-page link
\* carries the click listener, so that a click is intercepted.
C14_Original ==
    ~hasIO =>
        /\ observed = {}
        /\ \A e \in Elems : seen[e] = 0
        /\ sinceReady >= 0 =>
              /\ \A e \in Staggered :
                    heroAt[e] >= 0 \/ PendingFor(e, "hero") # {}
              /\ listening = Links
              /\ clickCalls # <<>> =>
                    Called("preventDefault") /\ ~Called("jump")

\* The place of the first call of op in a sequence of host calls (0: none)
FirstCall(calls, op) ==
    IF \E i \in DOMAIN calls : calls[i].op = op
    THEN Min({ i \in DOMAIN calls : calls[i].op = op })
    ELSE 0

\* C15 as stated: handling an intersecting entry for an element with a
\* delay index, the callback unobserves the element before it sets the
\* timer of its reveal.
C15_Original ==
    \A entry \in Entries :
        entry.isIntersecting /\ HasIndex(entry.target) =>
            LET calls == handleEntry(State, entry).calls
            IN  /\ FirstCall(calls, "unobserve") > 0
                /\ FirstCall(calls, "unobserve")
                       < FirstCall(calls, "setTimeout")

\* C15 amended: handling an intersecting entry for an element that has a
\* data-delay attribute, the callback sets one timer for its reveal and
\* then unobserves the element, and does nothing else; and every element
\* goes from unrevealed to revealed at most once, however many callbacks
\* add 'visible' to it.
C15_ScheduledThenDeregistered ==
    /\ \A entry \in Entries :
          entry.isIntersecting /\ page[entry.target].delay # Null =>
              LET st == handleEntry(State, entry)
              IN  /\ st.calls = << Call("setTimeout", entry.target),
                                   Call("unobserve", entry.target) >>
                  /\ Len(st.timers) = Len(timers) + 1
                  /\ st.timers[Len(st.timers)].el = entry.target
                  /\ entry.target \notin st.observed
                  /\ st.visible = visible
    /\ \A e \in Elems : reveals[e] <= 1

\* An element with a delay index waits for its timer, unobserved, while
\* another one is still observed
C15_Witness ==
    \E e, f \in Boxes :
        /\ e \in observed
        /\ seen[f] = 1 /\ created[f] = 1
        /\ f \notin observed
        /\ PendingFor(f, "scroll") # {}
        /\ f \notin visible

\* The scroll listener has run: the watched elements have been registered
Registered == hasIO /\ sinceReady >= 0

\* C16: once the watched elements have been registered, each of them is
\* observed with no timer of handleIntersection pending for it, or it is
\* not observed and such a timer is pending, or it is revealed; none is
\* unobserved and unrevealed with no timer pending for it.
C16_NoElementLost ==
    Registered =>
        \A e \in Watched :
            /\ \/ e \in observed /\ PendingFor(e, "scroll") = {}
               \/ e \notin observed /\ PendingFor(e, "scroll") # {}
               \/ e \in visible
            /\ ~ /\ e \notin observed
                 /\ e \notin visible
                 /\ \A i \in DOMAIN timers : timers[i].el # e

\* One watched element waits for its timer while another has been revealed
\* by its own
C16_Witness ==
    /\ Registered
    /\ \E e, f \in Watched :
          /\ e \notin observed /\ e \notin visible
          /\ PendingFor(e, "scroll") # {}
          /\ f \notin observed /\ f \in visible
          /\ created[f] >= 1

\* C17: as long as DOMContentLoaded has not been dispatched to the script's
\* listeners the script has revealed no element, no timer is pending, no
\* element is observed, no link carries the click listener and a click takes
\* its default jump; and when the event was dispatched before the script
\* was evaluated, this stays so for ever.
C17_NothingBeforeReady ==
    /\ [](sinceReady = -1 =>
            /\ visible = markup
            /\ \A e \in Elems : reveals[e] = 0 /\ seen[e] = 0
            /\ timers = <<>>
            /\ observed = {}
            /\ listening = {}
            /\ clickCalls # <<>> =>
                  Called("jump") /\ ~Called("preventDefault"))
    /\ [][domReady /\ sinceReady = -1 => sinceReady' = -1]_vars

\* A click on a link of a page whose DOMContentLoaded the script missed
C17_Witness ==
    /\ domReady
    /\ sinceReady = -1
    /\ Staggered # {} /\ Watched # {}
    /\ \E link \in Links : Clicked(link) /\ Called("jump")

====
